---- MODULE Spec2Model ----
(***************************************************************************)
(* monosize bundler adapters: the webpack runner (runWebpack.mts), the     *)
(* esbuild adapter (createEsbuildBundler) and the Rsbuild adapter          *)
(* (createRspackBundler), modelled as one state machine that follows one   *)
(* build invocation at a time from the call to the returned BuildResult.   *)
(*                                                                         *)
(* Strings are sequences of one-character strings, so that the regular     *)
(* expressions and node:path functions of the source are computed          *)
(* character by character (POSIX flavour of node:path).                    *)
(***************************************************************************)
EXTENDS Naturals, Sequences, FiniteSets, TLC

\* ------------------------------------------------------------------------
\* Bounds of the model
\* ------------------------------------------------------------------------

\* Largest number of fixtures in one batch.
MaxFixtures == 3

\* ------------------------------------------------------------------------
\* Strings
\* ------------------------------------------------------------------------

S_fixture == <<"f", "i", "x", "t", "u", "r", "e">>
S_js == <<"j", "s">>
S_dotOutputJs == <<".", "o", "u", "t", "p", "u", "t", ".", "j", "s">>
S_dotDebugJs == <<".", "d", "e", "b", "u", "g", ".", "j", "s">>
S_dist == <<"d", "i", "s", "t">>
S_nameJs == <<"[", "n", "a", "m", "e", "]", ".", "j", "s">>
S_name == <<"[", "n", "a", "m", "e", "]">>
S_index == <<"i", "n", "d", "e", "x">>
S_main == <<"m", "a", "i", "n">>
SLASH == "/"
DOT == "."

\* JavaScript undefined / an absent value.
Undefined == <<"undefined">>

EndsWith(s, suffix) ==
    /\ Len(suffix) <= Len(s)
    /\ SubSeq(s, Len(s) - Len(suffix) + 1, Len(s)) = suffix

StartsWith(s, prefix) ==
    /\ Len(prefix) <= Len(s)
    /\ SubSeq(s, 1, Len(prefix)) = prefix

DropLast(s, n) == SubSeq(s, 1, Len(s) - n)

\* Decimal digits of a number, as `${index}` prints it.
RECURSIVE NumberToString(_)
NumberToString(n) ==
    LET digit == <<"0", "1", "2", "3", "4", "5", "6", "7", "8", "9">>
    IN  IF n < 10 THEN <<digit[n + 1]>>
        ELSE NumberToString(n \div 10) \o <<digit[(n % 10) + 1]>>

\* The regular expression /\.fixture.js$/ : a literal dot, "fixture", ANY one
\* character (the second dot is not escaped; it matches all but line ends)
\* and "js" at the end of the string.
MatchesFixtureAnyJs(s) ==
    LET n == Len(s)
    IN  /\ n >= 11
        /\ s[n - 10] = DOT
        /\ SubSeq(s, n - 9, n - 3) = S_fixture
        /\ s[n - 2] \notin {"\n", "\r"}
        /\ SubSeq(s, n - 1, n) = S_js

\* The regular expression /\.fixture\.js$/ : both dots literal.
MatchesFixtureDotJs(s) ==
    LET n == Len(s)
    IN  /\ n >= 11
        /\ s[n - 10] = DOT
        /\ SubSeq(s, n - 9, n - 3) = S_fixture
        /\ s[n - 2] = DOT
        /\ SubSeq(s, n - 1, n) = S_js

\* String.prototype.replace with a regular expression anchored at the end
\* whose matches are all 11 characters long: the match, if any, is the last
\* 11 characters; without a match the string is returned unchanged.
ReplaceFixtureAnyJs(s, replacement) ==
    IF MatchesFixtureAnyJs(s) THEN DropLast(s, 11) \o replacement ELSE s

ReplaceFixtureDotJs(s, replacement) ==
    IF MatchesFixtureDotJs(s) THEN DropLast(s, 11) \o replacement ELSE s

\* ------------------------------------------------------------------------
\* node:path (posix)
\* ------------------------------------------------------------------------

\* Positions of the character c in s.
Positions(s, c) == {i \in 1..Len(s) : s[i] = c}

Max(S) == CHOOSE x \in S : \A y \in S : y <= x

\* s without its trailing slashes.
RECURSIVE StripTrailingSlashes(_)
StripTrailingSlashes(s) ==
    IF Len(s) > 0 /\ s[Len(s)] = SLASH
    THEN StripTrailingSlashes(DropLast(s, 1))
    ELSE s

\* path.dirname: everything before the last slash that is followed by a
\* character other than a slash; "." (or "/") when there is none.
path_dirname(p) ==
    LET hasRoot == Len(p) > 0 /\ p[1] = SLASH
        ends == {i \in 2..Len(p) :
                    /\ p[i] = SLASH
                    /\ \E j \in (i + 1)..Len(p) : p[j] # SLASH}
    IN  IF Len(p) = 0 THEN <<DOT>>
        ELSE IF ends = {} THEN (IF hasRoot THEN <<SLASH>> ELSE <<DOT>>)
        ELSE SubSeq(p, 1, Max(ends) - 1)

\* path.basename(p): the last segment of p, trailing slashes ignored.
path_basename(p) ==
    LET q == StripTrailingSlashes(p)
        slashes == Positions(q, SLASH)
    IN  IF slashes = {} THEN q ELSE SubSeq(q, Max(slashes) + 1, Len(q))

\* path.basename(p, ext): the last segment without the suffix ext, unless
\* the suffix is the whole segment.
path_basename_ext(p, ext) ==
    LET base == path_basename(p)
    IN  IF Len(ext) = 0 THEN base
        ELSE IF ext = p THEN <<>>
        ELSE IF EndsWith(base, ext) /\ Len(base) > Len(ext) THEN DropLast(base, Len(ext))
        ELSE base

\* path.extname: from the last dot of the last segment to its end; empty
\* when there is no dot, when the only dot starts the segment, or for "..".
path_extname(p) ==
    LET base == path_basename(p)
        dots == Positions(base, DOT)
    IN  IF dots = {} \/ Max(dots) = 1 \/ base = <<DOT, DOT>> THEN <<>>
        ELSE SubSeq(base, Max(dots), Len(base))

\* The segments of p between slashes (empty segments included).
RECURSIVE Split(_)
Split(p) ==
    LET slashes == Positions(p, SLASH)
    IN  IF slashes = {} THEN <<p>>
        ELSE LET i == Max(slashes)
             IN  Append(Split(SubSeq(p, 1, i - 1)), SubSeq(p, i + 1, Len(p)))

\* normalizeString of node:path: drops empty and "." segments and resolves
\* ".." against the segment before it.
RECURSIVE NormalizeSegments(_, _, _)
NormalizeSegments(segs, acc, isAbsolute) ==
    IF segs = <<>> THEN acc
    ELSE LET seg == Head(segs)
             rest == Tail(segs)
         IN  IF seg = <<>> \/ seg = <<DOT>> THEN NormalizeSegments(rest, acc, isAbsolute)
             ELSE IF seg = <<DOT, DOT>>
             THEN IF acc # <<>> /\ acc[Len(acc)] # <<DOT, DOT>>
                  THEN NormalizeSegments(rest, DropLast(acc, 1), isAbsolute)
                  ELSE IF isAbsolute THEN NormalizeSegments(rest, acc, isAbsolute)
                  ELSE NormalizeSegments(rest, Append(acc, seg), isAbsolute)
             ELSE NormalizeSegments(rest, Append(acc, seg), isAbsolute)

RECURSIVE JoinWith(_, _)
JoinWith(segs, sep) ==
    IF segs = <<>> THEN <<>>
    ELSE IF Len(segs) = 1 THEN segs[1]
    ELSE segs[1] \o sep \o JoinWith(Tail(segs), sep)

\* path.normalize
path_normalize(p) ==
    LET isAbsolute == Len(p) > 0 /\ p[1] = SLASH
        trailing == Len(p) > 0 /\ p[Len(p)] = SLASH
        body == JoinWith(NormalizeSegments(Split(p), <<>>, isAbsolute), <<SLASH>>)
        body1 == IF body = <<>> /\ ~isAbsolute THEN <<DOT>> ELSE body
        body2 == IF body # <<>> /\ trailing THEN body1 \o <<SLASH>> ELSE body1
    IN  IF Len(p) = 0 THEN <<DOT>>
        ELSE IF isAbsolute THEN <<SLASH>> \o body2 ELSE body2

\* path.join(a, b): the non-empty arguments joined by "/", normalized.
path_join(a, b) ==
    LET joined == IF Len(a) = 0 THEN b
                  ELSE IF Len(b) = 0 THEN a
                  ELSE a \o <<SLASH>> \o b
    IN  IF Len(joined) = 0 THEN <<DOT>> ELSE path_normalize(joined)

\* ------------------------------------------------------------------------
\* Inputs: fixture paths, fixtures, options
\* ------------------------------------------------------------------------

P_m_a_fixture == <<"/", "m", "/", "a", ".">> \o S_fixture \o <<".", "j", "s">>
P_m_b_fixture == <<"/", "m", "/", "b", ".">> \o S_fixture \o <<".", "j", "s">>
P_n_a_fixture == <<"/", "n", "/", "a", ".">> \o S_fixture \o <<".", "j", "s">>
\* Paths that do not end in ".fixture.js": replace() leaves them as they are.
P_m_a_output == <<"/", "m", "/", "a">> \o S_dotOutputJs
P_m_a_output_2 == <<"/", "m", "/", "a", ".", "o", "u", "t", "p", "u", "t", "_", "2", ".", "j", "s">>

FixturePaths ==
    {P_m_a_fixture, P_m_b_fixture, P_n_a_fixture, P_m_a_output, P_m_a_output_2}

\* Fixture: { fixturePath, name }. Two fixtures may share a name.
Fixtures ==
    { [fixturePath |-> P_m_a_fixture, name |-> "A"],
      [fixturePath |-> P_m_b_fixture, name |-> "A"],
      [fixturePath |-> P_n_a_fixture, name |-> "B"],
      [fixturePath |-> P_m_a_output, name |-> "B"],
      [fixturePath |-> P_m_a_output_2, name |-> "C"] }

\* Non-empty fixture lists of a batch.
Batches == UNION {[1..n -> Fixtures] : n \in 1..MaxFixtures}

\* options.debug: true, false or absent.
DebugValues == {"true", "false", "undefined"}

\* JavaScript truthiness of options.debug.
Truthy(debug) == debug = "true"

Range(f) == {f[x] : x \in DOMAIN f}

\* Object spread { ...a, ...b }: the keys of b override those of a.
Spread(a, b) == b @@ a

\* The empty object {}; also what spreading `false` or `undefined` adds.
EmptyObject == <<>>

\* obj without the keys in `keys`.
Omit(obj, keys) == [k \in (DOMAIN obj) \ keys |-> obj[k]]

\* ------------------------------------------------------------------------
\* runWebpack.mts: configuration
\* ------------------------------------------------------------------------

\* webpack's `entry` is a string (one entry) or an object { key: path }; the
\* JavaScript type of the value is kept with it.
EntryString(fixturePath) == [type |-> "string", value |-> fixturePath]
EntryObject(entry) == [type |-> "object", value |-> entry]

TerserWebpackPlugin ==
    [plugin |-> "TerserWebpackPlugin", extractComments |-> FALSE,
     terserOptions |-> [format |-> [comments |-> FALSE]]]

createBaseWebpackConfig(debug) ==
    Spread(
        [name |-> "client",
         target |-> "web",
         mode |-> "production",
         cache |-> [type |-> "memory"],
         externals |-> [react |-> "React", react_dom |-> "ReactDOM"],
         performance |-> [hints |-> FALSE],
         optimization |->
            Spread([minimizer |-> <<TerserWebpackPlugin>>],
                   IF Truthy(debug)
                   THEN [minimize |-> FALSE, minimizer |-> <<>>]
                   ELSE EmptyObject)],
        IF Truthy(debug) THEN [stats |-> [optimizationBailout |-> TRUE]] ELSE EmptyObject)

createWebpackConfig(fixturePath, outputPath, debug) ==
    Spread(
        createBaseWebpackConfig(debug),
        [entry |-> EntryString(fixturePath),
         output |->
            Spread([filename |-> path_basename(outputPath),
                    path |-> path_dirname(outputPath)],
                   IF Truthy(debug) THEN [pathinfo |-> TRUE] ELSE EmptyObject)])

\* A variant of EntryKeyOf that keeps the extension in the key.
EntryKeyOf_KeepsExtension(outputPath) == path_basename(outputPath)

\* The entry key the batch derives from an output path:
\* path.basename(outputPath, path.extname(outputPath)).
EntryKeyOf(outputPath) == path_basename_ext(outputPath, path_extname(outputPath))

\* A variant of WebpackEntryStep that renames every colliding key to K_1.
WebpackEntryStep_AlwaysOne(acc, fixture, index) ==
    LET derived == EntryKeyOf(fixture.outputPath)
        entryName == IF derived \in acc.seenKeys
                     THEN derived \o <<"_", "1">>
                     ELSE derived
    IN  [entry |-> (entryName :> fixture.fixturePath) @@ acc.entry,
         seenKeys |-> acc.seenKeys \cup {entryName},
         names |-> Append(acc.names, entryName)]

\* One iteration of the forEach of createMultiEntryWebpackConfig, for the
\* fixture at the zero-based `index`. acc = [entry, seenKeys, names]; names
\* records the entryName each iteration ended with.
WebpackEntryStep(acc, fixture, index) ==
    LET derived == EntryKeyOf(fixture.outputPath)
        entryName == IF derived \in acc.seenKeys
                     THEN derived \o <<"_">> \o NumberToString(index)
                     ELSE derived
    IN  [entry |-> (entryName :> fixture.fixturePath) @@ acc.entry,
         seenKeys |-> acc.seenKeys \cup {entryName},
         names |-> Append(acc.names, entryName)]

RECURSIVE WebpackEntryFold(_, _)
WebpackEntryFold(fixtures, n) ==
    IF n = 0 THEN [entry |-> EmptyObject, seenKeys |-> {}, names |-> <<>>]
    ELSE WebpackEntryStep(WebpackEntryFold(fixtures, n - 1), fixtures[n], n - 1)

\* The entry names assigned to the fixtures of a batch, in input order.
WebpackEntryNames(fixtures) == WebpackEntryFold(fixtures, Len(fixtures)).names

\* A variant of createMultiEntryWebpackConfig that never sets
\* output.pathinfo.
createMultiEntryWebpackConfig_NoPathinfo(fixtures, debug) ==
    LET entry == WebpackEntryFold(fixtures, Len(fixtures)).entry
        outputDir == path_dirname(fixtures[1].outputPath)
    IN  Spread(
            createBaseWebpackConfig(debug),
            [entry |-> EntryObject(entry),
             output |-> [filename |-> S_nameJs, path |-> outputDir]])

createMultiEntryWebpackConfig(fixtures, debug) ==
    LET entry == WebpackEntryFold(fixtures, Len(fixtures)).entry
        outputDir == path_dirname(fixtures[1].outputPath)
    IN  Spread(
            createBaseWebpackConfig(debug),
            [entry |-> EntryObject(entry),
             output |->
                Spread([filename |-> S_nameJs, path |-> outputDir],
                       IF Truthy(debug) THEN [pathinfo |-> TRUE] ELSE EmptyObject)])

\* ------------------------------------------------------------------------
\* Rsbuild adapter: environment configuration
\* ------------------------------------------------------------------------

\* The EnvironmentConfig both constructors assemble, for an entry object, a
\* file name and an output directory.
RsbuildEnvironment(entry, filenameJs, distRoot) ==
    [source |-> [entry |-> entry],
     output |->
        [externals |-> [react |-> "React", react_dom |-> "ReactDOM"],
         target |-> "web",
         emitAssets |-> FALSE,
         filename |-> [js |-> filenameJs],
         distPath |-> [root |-> distRoot, js |-> <<".", "/">>],
         minify |-> TRUE],
     performance |-> [chunkSplit |-> [strategy |-> "all-in-one"]]]

\* A variant of createEnvironmentConfig whose debug environment is
\* minified.
createEnvironmentConfig_DebugMinified(params) ==
    LET environmentConfig ==
            RsbuildEnvironment((S_index :> params.fixturePath),
                               path_basename(params.outputPath),
                               path_dirname(params.outputPath))
        hasDebug == /\ "debugOutputPath" \in DOMAIN params
                    /\ params.debugOutputPath # <<>>
    IN  Spread(
            [default |-> environmentConfig],
            IF hasDebug
            THEN [debug |->
                    Spread(environmentConfig,
                           [output |->
                              Spread(environmentConfig.output,
                                     [filename |-> [js |-> path_basename(params.debugOutputPath)]])])]
            ELSE EmptyObject)

\* params = { fixturePath, outputPath, debugOutputPath? }
createEnvironmentConfig(params) ==
    LET environmentConfig ==
            RsbuildEnvironment((S_index :> params.fixturePath),
                               path_basename(params.outputPath),
                               path_dirname(params.outputPath))
        hasDebug == /\ "debugOutputPath" \in DOMAIN params
                    /\ params.debugOutputPath # <<>>
    IN  Spread(
            [default |-> environmentConfig],
            IF hasDebug
            THEN [debug |->
                    Spread(environmentConfig,
                           [output |->
                              Spread(environmentConfig.output,
                                     [filename |-> [js |-> path_basename(params.debugOutputPath)],
                                      minify |-> FALSE])])]
            ELSE EmptyObject)

\* fixtures.reduce((acc, f) => { acc[key(f)] = f.fixturePath }, {}) over the
\* first n fixtures; `field` names the path the key is derived from
\* (outputPath, or debugOutputPath, skipped when it is falsy).
RECURSIVE RsbuildEntryReduce(_, _, _)
RsbuildEntryReduce(fixtures, n, field) ==
    IF n = 0 THEN EmptyObject
    ELSE LET acc == RsbuildEntryReduce(fixtures, n - 1, field)
             f == fixtures[n]
         IN  IF field = "debugOutputPath" /\ f.debugOutputPath = <<>>
             THEN acc
             ELSE (EntryKeyOf(f[field]) :> f.fixturePath) @@ acc

\* A variant of createMultiEntryEnvironmentConfig that takes the output
\* directory from the last fixture.
createMultiEntryEnvironmentConfig_LastDirectory(fixtures, debug) ==
    LET outputDir == path_dirname(fixtures[Len(fixtures)].outputPath)
        entry == RsbuildEntryReduce(fixtures, Len(fixtures), "outputPath")
        environmentConfig == RsbuildEnvironment(entry, S_nameJs, outputDir)
        debugEntry == RsbuildEntryReduce(fixtures, Len(fixtures), "debugOutputPath")
    IN  IF ~Truthy(debug)
        THEN [default |-> environmentConfig]
        ELSE [default |-> environmentConfig,
              debug |->
                Spread(environmentConfig,
                       [source |-> [entry |-> debugEntry],
                        output |-> Spread(environmentConfig.output, [minify |-> FALSE])])]

\* params = { fixtures: [{ fixturePath, outputPath, debugOutputPath }], debug }
createMultiEntryEnvironmentConfig(fixtures, debug) ==
    LET outputDir == path_dirname(fixtures[1].outputPath)
        entry == RsbuildEntryReduce(fixtures, Len(fixtures), "outputPath")
        environmentConfig == RsbuildEnvironment(entry, S_nameJs, outputDir)
        debugEntry == RsbuildEntryReduce(fixtures, Len(fixtures), "debugOutputPath")
    IN  IF ~Truthy(debug)
        THEN [default |-> environmentConfig]
        ELSE [default |-> environmentConfig,
              debug |->
                Spread(environmentConfig,
                       [source |-> [entry |-> debugEntry],
                        output |-> Spread(environmentConfig.output, [minify |-> FALSE])])]

\* ------------------------------------------------------------------------
\* Config enhancers (the callback the adapter factories are given)
\* ------------------------------------------------------------------------

\* identity : config => config (DEFAULT_CONFIG_ENHANCER)
\* mutate   : changes the configuration in place and returns it (the test's
\*            enhancer sets output.pathinfo = false; the README's sets
\*            resolve.alias)
\* replace  : returns a new object and leaves its argument untouched
\* throws   : throws instead of returning
Enhancers == {"identity", "mutate", "replace", "throws"}

SetPathinfoFalse(config) ==
    LET output == IF "output" \in DOMAIN config THEN config.output ELSE EmptyObject
    IN  Spread(config, [output |-> Spread(output, [pathinfo |-> FALSE])])

SetResolveAlias(config) ==
    Spread(config, [resolve |-> [alias |-> [some_package |-> "some-package.esm.js"]]])

\* The object the enhancer was given, as the enhancer leaves it.
EnhancerLeaves(enhancer, adapter, config) ==
    IF enhancer = "mutate"
    THEN (IF adapter = "webpack" THEN SetPathinfoFalse(config) ELSE SetResolveAlias(config))
    ELSE config

\* The value the enhancer returns.
EnhancerReturns(enhancer, adapter, config) ==
    IF enhancer = "replace"
    THEN Spread(config, [mode |-> "development"])
    ELSE EnhancerLeaves(enhancer, adapter, config)

\* ------------------------------------------------------------------------
\* The backends (webpack, Rsbuild), as far as the adapters rely on them
\* ------------------------------------------------------------------------

\* An output file name template with the entry key in place of "[name]".
ExpandName(template, key) ==
    IF StartsWith(template, S_name)
    THEN key \o SubSeq(template, Len(S_name) + 1, Len(template))
    ELSE template

\* What a backend compiles an artifact from: the entry's source file and
\* the settings of the configuration other than the entry and the place of
\* the output. Two artifacts are byte-identical when these agree.
Artifact(src, settings) == [src |-> src, settings |-> settings]

WebpackSettings(config) ==
    Spread(Omit(config, {"entry"}), [output |-> Omit(config.output, {"filename", "path"})])

\* The entry object of a webpack configuration; a string entry is the entry
\* "main".
WebpackEntries(config) ==
    IF config.entry.type = "string"
    THEN (S_main :> config.entry.value)
    ELSE config.entry.value

\* The files a successful webpack run writes: path -> the artifacts written
\* there (more than one when two entries expand to the same file).
WebpackEmit(config) ==
    LET entries == WebpackEntries(config)
        fileOf(key) == path_join(config.output.path, ExpandName(config.output.filename, key))
        files == {fileOf(key) : key \in DOMAIN entries}
    IN  [file \in files |->
            {Artifact(entries[key], WebpackSettings(config)) :
                key \in {k \in DOMAIN entries : fileOf(k) = file}}]

RsbuildSettings(config, env) ==
    [shared |-> Omit(config, {"environments"}),
     output |-> Omit(env.output, {"filename", "distPath"}),
     performance |-> env.performance]

\* The files a successful Rsbuild run writes, over all environments.
RsbuildEmit(config) ==
    LET envs == config.environments
        fileOf(env, key) ==
            path_join(path_join(env.output.distPath.root, env.output.distPath.js),
                      ExpandName(env.output.filename.js, key))
        written == UNION {{<<e, key>> : key \in DOMAIN envs[e].source.entry} :
                            e \in DOMAIN envs}
        files == {fileOf(envs[w[1]], w[2]) : w \in written}
    IN  [file \in files |->
            {Artifact(envs[w[1]].source.entry[w[2]], RsbuildSettings(config, envs[w[1]])) :
                w \in {x \in written : fileOf(envs[x[1]], x[2]) = file}}]

\* ------------------------------------------------------------------------
\* Path derivation of the adapters
\* ------------------------------------------------------------------------

\* A variant of EsbuildOutputPath that drops the directory of the fixture.
EsbuildOutputPath_BasenameOnly(fixturePath) ==
    ReplaceFixtureAnyJs(path_basename(fixturePath), S_dotOutputJs)

\* createEsbuildBundler: outputPath of a fixture path.
EsbuildOutputPath(fixturePath) == ReplaceFixtureAnyJs(fixturePath, S_dotOutputJs)

\* createRspackBundler: artifactsDir, outputPath and debugOutputPath.
RsbuildArtifactsDir(fixturePath) == path_join(path_dirname(fixturePath), S_dist)

\* A variant of RsbuildOutputPath that writes next to the fixture.
RsbuildOutputPath_NextToFixture(fixturePath) ==
    path_join(path_dirname(fixturePath),
              ReplaceFixtureDotJs(path_basename(fixturePath), S_dotOutputJs))

RsbuildOutputPath(fixturePath) ==
    path_join(RsbuildArtifactsDir(fixturePath),
              ReplaceFixtureDotJs(path_basename(fixturePath), S_dotOutputJs))

RsbuildDebugOutputPath(fixturePath) ==
    path_join(RsbuildArtifactsDir(fixturePath),
              ReplaceFixtureAnyJs(path_basename(fixturePath), S_dotDebugJs))

\* The webpack adapter (createWebpackBundler.mts) hands runWebpack and
\* runWebpackMultiEntry the output path of each fixture: the ".fixture.js"
\* suffix replaced by ".output.js" (".debug.js" for the debug artifact).
WebpackOutputPath(fixturePath) == ReplaceFixtureDotJs(fixturePath, S_dotOutputJs)

WebpackDebugOutputPath(fixturePath) == ReplaceFixtureDotJs(fixturePath, S_dotDebugJs)

\* fixtures.map(...) of buildFixtures: every fixture with its paths.
FixtureWithPaths(adapter, fixture) ==
    LET p == fixture.fixturePath
    IN  fixture @@
        (CASE adapter = "esbuild" -> [outputPath |-> EsbuildOutputPath(p)]
           [] adapter = "Rsbuild" -> [outputPath |-> RsbuildOutputPath(p),
                                      debugOutputPath |-> RsbuildDebugOutputPath(p)]
           [] adapter = "webpack" -> [outputPath |-> WebpackOutputPath(p),
                                      debugOutputPath |-> WebpackDebugOutputPath(p)])

FixturesWithPaths(adapter, fixtures) ==
    [i \in 1..Len(fixtures) |-> FixtureWithPaths(adapter, fixtures[i])]

\* ------------------------------------------------------------------------
\* Default configuration of an invocation
\* ------------------------------------------------------------------------

\* The rsbuildConfig buildFixture passes to the enhancer.
RsbuildSingleConfig(f, debug) ==
    [root |-> path_dirname(f.fixturePath),
     mode |-> "production",
     dev |-> [progressBar |-> FALSE],
     environments |->
        createEnvironmentConfig(
            Spread([fixturePath |-> f.fixturePath, outputPath |-> f.outputPath],
                   IF Truthy(debug) THEN [debugOutputPath |-> f.debugOutputPath]
                   ELSE EmptyObject))]

\* The rsbuildConfig buildFixtures passes to the enhancer.
RsbuildBatchConfig(fixtures, withPaths, debug) ==
    [root |-> path_dirname(fixtures[1].fixturePath),
     mode |-> "production",
     dev |-> [progressBar |-> FALSE],
     environments |-> createMultiEntryEnvironmentConfig(withPaths, debug)]

\* The configuration constructed for an invocation, before the enhancer.
DefaultConfig(c, withPaths) ==
    CASE c.adapter = "webpack" /\ c.api = "buildFixture" ->
            createWebpackConfig(withPaths[1].fixturePath, withPaths[1].outputPath, c.debug)
      [] c.adapter = "webpack" /\ c.api = "buildFixtures" ->
            createMultiEntryWebpackConfig(withPaths, c.debug)
      [] c.adapter = "Rsbuild" /\ c.api = "buildFixture" ->
            RsbuildSingleConfig(withPaths[1], c.debug)
      [] c.adapter = "Rsbuild" /\ c.api = "buildFixtures" ->
            RsbuildBatchConfig(c.fixtures, withPaths, c.debug)

\* The files the backend of an adapter writes for a configuration.
BackendEmit(adapter, config) ==
    IF adapter = "webpack" THEN WebpackEmit(config) ELSE RsbuildEmit(config)

\* The source files a configuration compiles.
BackendSources(adapter, config) ==
    IF adapter = "webpack" THEN Range(WebpackEntries(config))
    ELSE UNION {Range(config.environments[e].source.entry) : e \in DOMAIN config.environments}

\* ------------------------------------------------------------------------
\* Promises
\* ------------------------------------------------------------------------

PendingPromise == [state |-> "pending", value |-> <<>>]

\* resolve(value) and reject(reason) of a promise executor: only the first
\* call settles the promise.
PromiseResolve(p, value) ==
    IF p.state = "pending" THEN [state |-> "fulfilled", value |-> value] ELSE p

PromiseReject(p, reason) ==
    IF p.state = "pending" THEN [state |-> "rejected", value |-> reason] ELSE p

NULL == <<"null">>

\* ------------------------------------------------------------------------
\* What the backend reports
\* ------------------------------------------------------------------------

\* The error a backend reports for a source file it cannot compile.
CompilationError(src) == <<"E", "r", "r", "o", "r", ":">> \o src

FatalError == <<"F", "a", "t", "a", "l">>

EnhancerError == <<"E", "n", "h", "a", "n", "c", "e", "r">>

\* compilation.errors: one error for every broken source file, in the order
\* of the sources given.
RECURSIVE CompilationErrors(_, _)
CompilationErrors(sources, broken) ==
    IF sources = <<>> THEN <<>>
    ELSE (IF Head(sources) \in broken THEN <<CompilationError(Head(sources))>> ELSE <<>>)
         \o CompilationErrors(Tail(sources), broken)

\* The distinct elements of a sequence, in order of first occurrence.
RECURSIVE Distinct(_)
Distinct(seq) ==
    IF seq = <<>> THEN <<>>
    ELSE LET init == Distinct(DropLast(seq, 1))
             last == seq[Len(seq)]
         IN  IF last \in Range(init) THEN init ELSE Append(init, last)

\* errors.join('\n')
JoinErrors(errors) == JoinWith(errors, <<"\n">>)

\* The arguments webpack gives the callback of compiler.run: an error and no
\* result, or no error and the Stats of the compilation.
NoErr == <<>>
NoResult == [present |-> FALSE, errors |-> <<>>]
Stats(errors) == [present |-> TRUE, errors |-> errors]
hasErrors(result) == result.errors # <<>>

\* A variant of compilerRunCallback that looks at err only.
compilerRunCallback_IgnoresStats(p, err, result) ==
    LET p1 == IF err # NoErr THEN PromiseReject(p, err) ELSE p
    IN  PromiseResolve(p1, NULL)

\* The callback of compiler.run in runWebpack and runWebpackMultiEntry,
\* applied to the promise of the executor.
compilerRunCallback(p, err, result) ==
    LET p1 == IF err # NoErr THEN PromiseReject(p, err) ELSE p
        p2 == IF result.present /\ hasErrors(result)
              THEN PromiseReject(p1, JoinErrors(result.errors))
              ELSE p1
    IN  PromiseResolve(p2, NULL)

\* ------------------------------------------------------------------------
\* Result shaping
\* ------------------------------------------------------------------------

\* `name` of a result: buildFixtures echoes the fixture's name, buildFixture
\* returns none.
ResultName(api, f) == IF api = "buildFixtures" THEN [name |-> f.name] ELSE EmptyObject

\* createEsbuildBundler: { outputPath } / { name, outputPath }; never a
\* debugOutputPath.
EsbuildBuildResult(api, f, debug) ==
    Spread(ResultName(api, f), [outputPath |-> f.outputPath])

\* A variant of RsbuildBuildResult that always reports a debugOutputPath.
RsbuildBuildResult_AlwaysDebug(api, f, debug) ==
    Spread(Spread(ResultName(api, f), [outputPath |-> f.outputPath]),
           [debugOutputPath |-> f.debugOutputPath])

\* createRspackBundler: { outputPath, ...(debug && { debugOutputPath }) } /
\* { name, outputPath, ...(debug && { debugOutputPath }) }.
RsbuildBuildResult(api, f, debug) ==
    Spread(Spread(ResultName(api, f), [outputPath |-> f.outputPath]),
           IF Truthy(debug) THEN [debugOutputPath |-> f.debugOutputPath] ELSE EmptyObject)

\* The webpack adapter: debugOutputPath when debug is requested.
WebpackBuildResult(api, f, debug) ==
    Spread(Spread(ResultName(api, f), [outputPath |-> f.outputPath]),
           IF Truthy(debug) THEN [debugOutputPath |-> f.debugOutputPath] ELSE EmptyObject)

\* The BuildResult an adapter returns for one fixture with its paths.
BuildResult(c, f) ==
    CASE c.adapter = "esbuild" -> EsbuildBuildResult(c.api, f, c.debug)
      [] c.adapter = "Rsbuild" -> RsbuildBuildResult(c.api, f, c.debug)
      [] c.adapter = "webpack" -> WebpackBuildResult(c.api, f, c.debug)

\* A variant of BuildResults that reports every output in the directory of
\* the first fixture's output.
BuildResults_InSharedDirectory(c, withPaths) ==
    [i \in 1..Len(withPaths) |->
        Spread(BuildResult(c, withPaths[i]),
               [outputPath |-> path_join(path_dirname(withPaths[1].outputPath),
                                         path_basename(withPaths[i].outputPath))])]

\* A variant of BuildResults that returns the results in reverse order.
BuildResults_Reversed(c, withPaths) ==
    [i \in 1..Len(withPaths) |-> BuildResult(c, withPaths[Len(withPaths) + 1 - i])]

\* fixturesWithPaths.map(...) : one BuildResult per fixture, in input order.
BuildResults(c, withPaths) ==
    [i \in 1..Len(withPaths) |-> BuildResult(c, withPaths[i])]

\* ------------------------------------------------------------------------
\* State
\* ------------------------------------------------------------------------

VARIABLES
    pc,                 \* where the invocation stands
    call,               \* the adapter, the entry point and its options
    fixturesWithPaths,  \* the fixtures with their derived paths
    defaultConfig,      \* <<the object given to the enhancer>>, as it is now
    enhancerCalls,      \* calls of the enhancer in this invocation
    enhancerArg,        \* <<the configuration the enhancer received>>
    config,             \* <<the value the enhancer returned>>
    backendConfigs,     \* the configurations backends were created with
    backendRuns,        \* runs of the backend in this invocation
    fs,                 \* the files the backend wrote: path -> artifacts
    reported,           \* what the backend reported: [err, result]
    promise,            \* the promise of the backend run
    results,            \* <<the value the adapter returned>>
    mutatedBefore       \* the enhancer of an earlier invocation changed the
                        \* object it was given

vars == <<pc, call, fixturesWithPaths, defaultConfig, enhancerCalls, enhancerArg,
          config, backendConfigs, backendRuns, fs, reported, promise, results,
          mutatedBefore>>

NothingReported == [err |-> NoErr, result |-> NoResult]

Adapters == {"webpack", "esbuild", "Rsbuild"}

NoCall ==
    [adapter |-> "none", api |-> "none", fixtures |-> <<>>,
     debug |-> "undefined", enhancer |-> "identity"]

Init ==
    /\ pc = "idle"
    /\ call = NoCall
    /\ fixturesWithPaths = <<>>
    /\ defaultConfig = <<>>
    /\ enhancerCalls = 0
    /\ enhancerArg = <<>>
    /\ config = <<>>
    /\ backendConfigs = <<>>
    /\ backendRuns = 0
    /\ fs = EmptyObject
    /\ reported = NothingReported
    /\ promise = PendingPromise
    /\ results = <<>>
    /\ mutatedBefore = FALSE

\* The enhancers an adapter is created with. runEsbuild, which applies the
\* enhancer of the esbuild adapter, is followed as one step (EsbuildRun).
EnhancersOf(adapter) == IF adapter = "esbuild" THEN {"identity"} ELSE Enhancers

\* The start of an adapter call, up to the derived paths.
Invoke(adapter, api, fixtures, debug, enhancer) ==
    /\ pc = "idle"
    /\ call' = [adapter |-> adapter, api |-> api, fixtures |-> fixtures,
                debug |-> debug, enhancer |-> enhancer]
    /\ fixturesWithPaths' = FixturesWithPaths(adapter, fixtures)
    /\ pc' = "derived"
    /\ UNCHANGED <<defaultConfig, enhancerCalls, enhancerArg, config, backendConfigs,
                   backendRuns, fs, promise, results>>
    /\ UNCHANGED reported
    /\ UNCHANGED mutatedBefore

\* adapter.buildFixture({ fixturePath, debug, quiet })
buildFixture(adapter, fixturePath, debug, enhancer) ==
    Invoke(adapter, "buildFixture", <<[fixturePath |-> fixturePath]>>, debug, enhancer)

\* adapter.buildFixtures({ fixtures, debug, quiet })
buildFixtures(adapter, fixtures, debug, enhancer) ==
    Invoke(adapter, "buildFixtures", fixtures, debug, enhancer)

\* A variant of Enhance that calls the enhancer once per fixture.
Enhance_PerFixture ==
    /\ pc = "derived"
    /\ call.adapter \in {"webpack", "Rsbuild"}
    /\ call.enhancer # "throws"
    /\ LET default == DefaultConfig(call, fixturesWithPaths)
       IN  /\ enhancerArg' = <<default>>
           /\ defaultConfig' = <<EnhancerLeaves(call.enhancer, call.adapter, default)>>
           /\ config' = <<EnhancerReturns(call.enhancer, call.adapter, default)>>
    /\ enhancerCalls' = enhancerCalls + Len(fixturesWithPaths)
    /\ pc' = "enhanced"
    /\ UNCHANGED <<call, fixturesWithPaths, backendConfigs, backendRuns, fs, promise,
                   results>>
    /\ UNCHANGED reported
    /\ UNCHANGED mutatedBefore

\* A variant of Enhance that builds the default configuration on an object
\* shared between invocations, which keeps what an earlier enhancer changed.
Enhance_OnSharedObject ==
    /\ pc = "derived"
    /\ call.adapter \in {"webpack", "Rsbuild"}
    /\ call.enhancer # "throws"
    /\ LET fresh == DefaultConfig(call, fixturesWithPaths)
           default == IF mutatedBefore
                      THEN EnhancerLeaves("mutate", call.adapter, fresh)
                      ELSE fresh
       IN  /\ enhancerArg' = <<default>>
           /\ defaultConfig' = <<EnhancerLeaves(call.enhancer, call.adapter, default)>>
           /\ config' = <<EnhancerReturns(call.enhancer, call.adapter, default)>>
    /\ enhancerCalls' = enhancerCalls + 1
    /\ pc' = "enhanced"
    /\ UNCHANGED <<call, fixturesWithPaths, backendConfigs, backendRuns, fs, promise,
                   results>>
    /\ UNCHANGED reported
    /\ UNCHANGED mutatedBefore

\* The default configuration is constructed and given to the enhancer, which
\* returns the configuration to use: enhanceConfig(createWebpackConfig(...)),
\* configEnhancerCallback({ root, mode, dev, environments }).
Enhance ==
    /\ pc = "derived"
    /\ call.adapter \in {"webpack", "Rsbuild"}
    /\ call.enhancer # "throws"
    /\ LET default == DefaultConfig(call, fixturesWithPaths)
       IN  /\ enhancerArg' = <<default>>
           /\ defaultConfig' = <<EnhancerLeaves(call.enhancer, call.adapter, default)>>
           /\ config' = <<EnhancerReturns(call.enhancer, call.adapter, default)>>
    /\ enhancerCalls' = enhancerCalls + 1
    /\ pc' = "enhanced"
    /\ UNCHANGED <<call, fixturesWithPaths, backendConfigs, backendRuns, fs, promise,
                   results>>
    /\ UNCHANGED reported
    /\ UNCHANGED mutatedBefore

\* A variant of EnhanceThrows that swallows the error and goes on with the
\* default configuration.
EnhanceThrows_GoesOn ==
    /\ pc = "derived"
    /\ call.adapter \in {"webpack", "Rsbuild"}
    /\ call.enhancer = "throws"
    /\ enhancerArg' = <<DefaultConfig(call, fixturesWithPaths)>>
    /\ defaultConfig' = enhancerArg'
    /\ config' = enhancerArg'
    /\ enhancerCalls' = enhancerCalls + 1
    /\ pc' = "enhanced"
    /\ UNCHANGED <<call, fixturesWithPaths, backendConfigs, backendRuns, fs, promise,
                   results>>
    /\ UNCHANGED reported
    /\ UNCHANGED mutatedBefore

\* The enhancer throws: the async function rejects with its error.
EnhanceThrows ==
    /\ pc = "derived"
    /\ call.adapter \in {"webpack", "Rsbuild"}
    /\ call.enhancer = "throws"
    /\ enhancerArg' = <<DefaultConfig(call, fixturesWithPaths)>>
    /\ defaultConfig' = enhancerArg'
    /\ enhancerCalls' = enhancerCalls + 1
    /\ promise' = PromiseReject(promise, EnhancerError)
    /\ pc' = "rejected"
    /\ UNCHANGED <<call, fixturesWithPaths, config, backendConfigs, backendRuns, fs,
                   results>>
    /\ UNCHANGED reported
    /\ UNCHANGED mutatedBefore

\* A variant of CreateBackend that passes on the object the enhancer was
\* given instead of the value it returned.
CreateBackend_IgnoresReturn ==
    /\ pc = "enhanced"
    /\ backendConfigs' = Append(backendConfigs, defaultConfig[1])
    /\ pc' = "created"
    /\ UNCHANGED <<call, fixturesWithPaths, defaultConfig, enhancerCalls, enhancerArg,
                   config, fs, promise, results>>
    /\ UNCHANGED backendRuns
    /\ UNCHANGED reported
    /\ UNCHANGED mutatedBefore

\* webpack(webpackConfig) / createRsbuild({ loadEnv: false, rsbuildConfig })
CreateBackend ==
    /\ pc = "enhanced"
    /\ backendConfigs' = Append(backendConfigs, config[1])
    /\ pc' = "created"
    /\ UNCHANGED <<call, fixturesWithPaths, defaultConfig, enhancerCalls, enhancerArg,
                   config, fs, promise, results>>
    /\ UNCHANGED backendRuns
    /\ UNCHANGED reported
    /\ UNCHANGED mutatedBefore

\* A variant of RunBackend that runs the backend once per fixture.
RunBackend_PerFixture ==
    /\ pc = "created"
    /\ backendRuns' = backendRuns + Len(fixturesWithPaths)
    /\ pc' = "running"
    /\ UNCHANGED <<call, fixturesWithPaths, defaultConfig, enhancerCalls, enhancerArg,
                   config, backendConfigs, fs, promise, results>>
    /\ UNCHANGED reported
    /\ UNCHANGED mutatedBefore

\* compiler.run(callback) / rsbuild.build({ watch: false })
RunBackend ==
    /\ pc = "created"
    /\ backendRuns' = backendRuns + 1
    /\ pc' = "running"
    /\ UNCHANGED <<call, fixturesWithPaths, defaultConfig, enhancerCalls, enhancerArg,
                   config, backendConfigs, fs, promise, results>>
    /\ UNCHANGED reported
    /\ UNCHANGED mutatedBefore

\* The sources of the running configuration, in the order of the fixtures.
CompiledSources ==
    LET compiled == BackendSources(call.adapter, backendConfigs[Len(backendConfigs)])
        all == Distinct([i \in 1..Len(fixturesWithPaths) |-> fixturesWithPaths[i].fixturePath])
    IN  SelectSeq(all, LAMBDA src : src \in compiled)

\* webpack calls the callback of compiler.run with (err, result); the
\* files are written when the compilation had no error.
CompilerCallback(err, result) ==
    /\ pc = "running"
    /\ call.adapter = "webpack"
    /\ reported' = [err |-> err, result |-> result]
    /\ promise' = compilerRunCallback(promise, err, result)
    /\ fs' = IF err = NoErr /\ ~hasErrors(result)
             THEN BackendEmit("webpack", backendConfigs[Len(backendConfigs)])
             ELSE fs
    /\ pc' = "settled"
    /\ UNCHANGED <<call, fixturesWithPaths, defaultConfig, enhancerCalls, enhancerArg,
                   config, backendConfigs, backendRuns, results>>
    /\ UNCHANGED mutatedBefore

\* await rsbuild.build({ watch: false }); await buildResult.close(): the
\* build rejects when the compilation has errors.
RsbuildBuildEnds(errors) ==
    /\ pc = "running"
    /\ call.adapter = "Rsbuild"
    /\ reported' = [err |-> NoErr, result |-> Stats(errors)]
    /\ promise' = IF errors = <<>> THEN PromiseResolve(promise, NULL)
                  ELSE PromiseReject(promise, JoinErrors(errors))
    /\ fs' = IF errors = <<>>
             THEN BackendEmit("Rsbuild", backendConfigs[Len(backendConfigs)])
             ELSE fs
    /\ pc' = "settled"
    /\ UNCHANGED <<call, fixturesWithPaths, defaultConfig, enhancerCalls, enhancerArg,
                   config, backendConfigs, backendRuns, results>>
    /\ UNCHANGED mutatedBefore

\* await runEsbuild(...) / await runEsbuildMultiEntry(...): resolves, or
\* rejects with the errors of the build.
EsbuildRun(errors) ==
    /\ pc = "derived"
    /\ call.adapter = "esbuild"
    /\ reported' = [err |-> NoErr, result |-> Stats(errors)]
    /\ promise' = IF errors = <<>> THEN PromiseResolve(promise, NULL)
                  ELSE PromiseReject(promise, JoinErrors(errors))
    /\ backendRuns' = backendRuns + 1
    /\ pc' = "settled"
    /\ UNCHANGED <<call, fixturesWithPaths, defaultConfig, enhancerCalls, enhancerArg,
                   config, backendConfigs, fs, results>>
    /\ UNCHANGED mutatedBefore

\* A variant of Return that returns results whatever the promise settled
\* to.
Return_AfterRejection ==
    /\ pc = "settled"
    /\ results' = <<IF call.api = "buildFixture"
                    THEN BuildResult(call, fixturesWithPaths[1])
                    ELSE BuildResults(call, fixturesWithPaths)>>
    /\ pc' = "returned"
    /\ UNCHANGED <<call, fixturesWithPaths, defaultConfig, enhancerCalls, enhancerArg,
                   config, backendConfigs, backendRuns, fs, promise>>
    /\ UNCHANGED reported
    /\ UNCHANGED mutatedBefore

\* The awaited promise is fulfilled: the adapter shapes and returns its
\* results.
Return ==
    /\ pc = "settled"
    /\ promise.state = "fulfilled"
    /\ results' = <<IF call.api = "buildFixture"
                    THEN BuildResult(call, fixturesWithPaths[1])
                    ELSE BuildResults(call, fixturesWithPaths)>>
    /\ pc' = "returned"
    /\ UNCHANGED <<call, fixturesWithPaths, defaultConfig, enhancerCalls, enhancerArg,
                   config, backendConfigs, backendRuns, fs, promise>>
    /\ UNCHANGED reported
    /\ UNCHANGED mutatedBefore

\* The awaited promise is rejected: the await throws and the adapter call
\* rejects without a result.
Reject ==
    /\ pc = "settled"
    /\ promise.state = "rejected"
    /\ pc' = "rejected"
    /\ UNCHANGED <<call, fixturesWithPaths, defaultConfig, enhancerCalls, enhancerArg,
                   config, backendConfigs, backendRuns, fs, promise, results>>
    /\ UNCHANGED reported
    /\ UNCHANGED mutatedBefore

\* The invocation is over; nothing of it is kept for the next one.
Finish ==
    /\ pc \in {"returned", "rejected"}
    /\ pc' = "idle"
    /\ call' = NoCall
    /\ fixturesWithPaths' = <<>>
    /\ defaultConfig' = <<>>
    /\ enhancerCalls' = 0
    /\ enhancerArg' = <<>>
    /\ config' = <<>>
    /\ backendConfigs' = <<>>
    /\ backendRuns' = 0
    /\ fs' = EmptyObject
    /\ reported' = NothingReported
    /\ promise' = PendingPromise
    /\ results' = <<>>
    /\ mutatedBefore' = (mutatedBefore \/ defaultConfig # enhancerArg)

\* The source files of the running invocation that may fail to compile.
BrokenSets == SUBSET Range(CompiledSources)

FixtureSources ==
    [i \in 1..Len(fixturesWithPaths) |-> fixturesWithPaths[i].fixturePath]

Next ==
    \/ /\ pc = "idle"
       /\ \E adapter \in Adapters, fixturePath \in FixturePaths, debug \in DebugValues :
            \E enhancer \in EnhancersOf(adapter) :
                buildFixture(adapter, fixturePath, debug, enhancer)
    \/ /\ pc = "idle"
       /\ \E adapter \in Adapters, fixtures \in Batches, debug \in DebugValues :
            \E enhancer \in EnhancersOf(adapter) :
                buildFixtures(adapter, fixtures, debug, enhancer)
    \/ Enhance
    \/ EnhanceThrows
    \/ CreateBackend
    \/ RunBackend
    \/ CompilerCallback(FatalError, NoResult)
    \/ /\ pc = "running"
       /\ \E broken \in BrokenSets :
            CompilerCallback(NoErr, Stats(CompilationErrors(CompiledSources, broken)))
    \/ RsbuildBuildEnds(<<FatalError>>)
    \/ /\ pc = "running"
       /\ \E broken \in BrokenSets :
            RsbuildBuildEnds(CompilationErrors(CompiledSources, broken))
    \/ /\ pc = "derived"
       /\ \E broken \in SUBSET Range(FixtureSources) :
            EsbuildRun(CompilationErrors(Distinct(FixtureSources), broken))
    \/ Return
    \/ Reject
    \/ Finish

Spec == Init /\ [][Next]_vars

\* ------------------------------------------------------------------------
\* Properties
\* ------------------------------------------------------------------------

S_dotFixtureJs == <<DOT>> \o S_fixture \o <<DOT>> \o S_js

\* The batch invariant of BatchBuildOptions ("All fixtures should output to
\* the same directory") and the contract of the path derivation (a fixture
\* path ends in ".fixture.js").
BatchInvariant(fixtures) ==
    \A i \in 1..Len(fixtures) :
        /\ EndsWith(fixtures[i].fixturePath, S_dotFixtureJs)
        /\ path_dirname(fixtures[i].fixturePath) = path_dirname(fixtures[1].fixturePath)

IsBatch == call.api = "buildFixtures"

\* The files a build of the fixture alone writes, with the adapter, debug
\* flag and enhancer of the running call (the single-fixture path).
SingleBuildOf(fixture) ==
    LET single == [call EXCEPT !.api = "buildFixture",
                               !.fixtures = <<[fixturePath |-> fixture.fixturePath]>>]
        withPaths == FixturesWithPaths(single.adapter, single.fixtures)
        default == DefaultConfig(single, withPaths)
    IN  [files |-> BackendEmit(single.adapter,
                               EnhancerReturns(single.enhancer, single.adapter, default)),
         result |-> BuildResult(single, withPaths[1])]

\* C1: batch/single equivalence. After a successful buildFixtures of the
\* webpack or the Rsbuild adapter with debug off, on a batch that satisfies
\* the batch invariant, the file at the outputPath returned for fixture i
\* holds exactly the artifact that buildFixture on fixture i alone (same
\* adapter, same enhancer) writes at the outputPath it returns.
C1_BatchSingleEquivalence ==
    (/\ pc = "returned"
     /\ IsBatch
     /\ call.adapter \in {"webpack", "Rsbuild"}
     /\ ~Truthy(call.debug)
     /\ BatchInvariant(call.fixtures))
    => \A i \in 1..Len(call.fixtures) :
        LET batchPath == results[1][i].outputPath
            single == SingleBuildOf(call.fixtures[i])
            singlePath == single.result.outputPath
        IN  /\ batchPath \in DOMAIN fs
            /\ singlePath \in DOMAIN single.files
            /\ Cardinality(fs[batchPath]) = 1
            /\ fs[batchPath] = single.files[singlePath]
            /\ \A artifact \in fs[batchPath] : artifact.src = call.fixtures[i].fixturePath

\* C1 witness: a batch of three fixtures, two of them distinct, has been
\* built by the Rsbuild adapter with debug off and an enhancer that changes
\* the configuration.
C1_Witness ==
    /\ pc = "returned"
    /\ IsBatch
    /\ call.adapter = "Rsbuild"
    /\ call.debug = "false"
    /\ call.enhancer = "replace"
    /\ BatchInvariant(call.fixtures)
    /\ Len(call.fixtures) = 3
    /\ call.fixtures[1].fixturePath # call.fixtures[2].fixturePath
    /\ call.fixtures[3].fixturePath = call.fixtures[1].fixturePath

\* The output path an adapter derives for a fixture path.
DerivedOutputPath(adapter, fixturePath) ==
    CASE adapter = "esbuild" -> EsbuildOutputPath(fixturePath)
      [] adapter = "Rsbuild" -> RsbuildOutputPath(fixturePath)
      [] adapter = "webpack" -> WebpackOutputPath(fixturePath)

\* C2: fan-out preserves input order. A successful buildFixtures on N
\* fixtures returns N results, and result i carries the name of fixture i
\* and the output path derived from the fixturePath of fixture i.
C2_FanOutPreservesOrder ==
    (pc = "returned" /\ IsBatch)
    => /\ Len(results[1]) = Len(call.fixtures)
       /\ \A i \in 1..Len(call.fixtures) :
            /\ results[1][i].name = call.fixtures[i].name
            /\ results[1][i].outputPath =
                    DerivedOutputPath(call.adapter, call.fixtures[i].fixturePath)

\* C2 witness: a returned batch in which two fixtures share a name and two
\* fixtures (in different directories) share a basename.
C2_Witness ==
    /\ pc = "returned"
    /\ IsBatch
    /\ call.adapter = "esbuild"
    /\ Len(call.fixtures) = 3
    /\ call.fixtures[1].name = call.fixtures[2].name
    /\ call.fixtures[1].fixturePath # call.fixtures[2].fixturePath
    /\ call.fixtures[3].fixturePath # call.fixtures[1].fixturePath
    /\ path_basename(call.fixtures[3].fixturePath) = path_basename(call.fixtures[1].fixturePath)

\* The results of the finished call, as a sequence (one for buildFixture).
ReturnedResults == IF IsBatch THEN results[1] ELSE <<results[1]>>

\* The fixture path without its ".fixture.js" suffix.
Stem(fixturePath) == DropLast(fixturePath, Len(S_dotFixtureJs))

\* C3 as stated: for every adapter and every fixture path ending in
\* ".fixture.js", the returned outputPath is the fixture path with the suffix
\* replaced by ".output.js", in the directory of the fixture; the debug path,
\* when returned, is the same with ".debug.js".
C3_Original_SameDirectory ==
    pc = "returned"
    => \A i \in 1..Len(call.fixtures) :
        LET p == call.fixtures[i].fixturePath
            r == ReturnedResults[i]
        IN  EndsWith(p, S_dotFixtureJs)
            => /\ r.outputPath = Stem(p) \o S_dotOutputJs
               /\ path_dirname(r.outputPath) = path_dirname(p)
               /\ "debugOutputPath" \in DOMAIN r
                    => r.debugOutputPath = Stem(p) \o S_dotDebugJs

\* The directory an adapter writes the artifacts of a fixture to: the
\* Rsbuild adapter uses the subdirectory "dist" of the fixture's directory.
ExpectedArtifactsDir(adapter, fixturePath) ==
    IF adapter = "Rsbuild"
    THEN path_dirname(fixturePath) \o <<SLASH>> \o S_dist
    ELSE path_dirname(fixturePath)

\* C3 (amended): for every fixture path ending in ".fixture.js", the returned
\* outputPath is <artifacts dir>/<basename with ".fixture.js" replaced by
\* ".output.js">, where the artifacts dir is the fixture's directory for the
\* esbuild and the webpack adapter and its subdirectory "dist" for the
\* Rsbuild adapter; the debug path, when returned, is the same with
\* ".debug.js".
C3_OutputNaming ==
    pc = "returned"
    => \A i \in 1..Len(call.fixtures) :
        LET p == call.fixtures[i].fixturePath
            r == ReturnedResults[i]
            dir == ExpectedArtifactsDir(call.adapter, p)
            stem == Stem(path_basename(p))
        IN  EndsWith(p, S_dotFixtureJs)
            => /\ r.outputPath = dir \o <<SLASH>> \o stem \o S_dotOutputJs
               /\ path_dirname(r.outputPath) = dir
               /\ "debugOutputPath" \in DOMAIN r
                    => r.debugOutputPath = dir \o <<SLASH>> \o stem \o S_dotDebugJs

\* C3 witness: the Rsbuild adapter has returned a debug result for a
\* fixture path ending in ".fixture.js".
C3_Witness ==
    /\ pc = "returned"
    /\ call.adapter = "Rsbuild"
    /\ ~IsBatch
    /\ EndsWith(call.fixtures[1].fixturePath, S_dotFixtureJs)
    /\ "debugOutputPath" \in DOMAIN results[1]

\* Whether the backend of an adapter supports debug output.
SupportsDebug(adapter) == adapter \in {"webpack", "Rsbuild"}

\* C4: a returned BuildResult has a debugOutputPath if and only if debug was
\* requested (true, not false or absent) and the adapter supports debug: all
\* results of a batch have it or none has; the esbuild adapter never
\* returns one.
C4_DebugOutputPathPresence ==
    pc = "returned"
    => \A i \in 1..Len(ReturnedResults) :
        ("debugOutputPath" \in DOMAIN ReturnedResults[i])
            <=> (Truthy(call.debug) /\ SupportsDebug(call.adapter))

\* C4 witness: the Rsbuild adapter has returned a batch of three results
\* with debug requested.
C4_Witness ==
    /\ pc = "returned"
    /\ IsBatch
    /\ call.adapter = "Rsbuild"
    /\ call.debug = "true"
    /\ Len(results[1]) = 3
    /\ \A i \in 1..3 : "debugOutputPath" \in DOMAIN results[1][i]

\* The default configuration of the running call has been constructed.
Configured == enhancerArg # <<>>

\* The entry key fixture i of the running batch derives from its output path.
DerivedKey(i) == EntryKeyOf(fixturesWithPaths[i].outputPath)

\* Fixture i is the first of the batch to derive its key, fixture j the
\* second.
FirstAndSecondSeen(i, j) ==
    /\ i < j
    /\ DerivedKey(i) = DerivedKey(j)
    /\ \A h \in 1..(j - 1) : h # i => DerivedKey(h) # DerivedKey(i)

\* The entry object of the webpack configuration given to the enhancer.
WebpackEntryOfCall == enhancerArg[1].entry.value

\* C5 as stated: when two fixtures of a webpack batch derive the same entry
\* key K, the first-seen keeps K and the second-seen receives K_1, wherever
\* they are placed in the input list.
C5_Original_SecondSeenGetsK1 ==
    (Configured /\ IsBatch /\ call.adapter = "webpack")
    => \A i, j \in 1..Len(fixturesWithPaths) :
        FirstAndSecondSeen(i, j)
        => /\ WebpackEntryNames(fixturesWithPaths)[i] = DerivedKey(i)
           /\ WebpackEntryNames(fixturesWithPaths)[j] = DerivedKey(i) \o <<"_", "1">>

\* C5 (amended): when two fixtures of a webpack batch derive the same entry
\* key K, the second-seen fixture, at zero-based index j of the input list,
\* receives K_j (K_1 only at index 1) and the entry map holds its fixturePath
\* under that key; the first-seen keeps K unless K is already the key of an
\* earlier fixture.
C5_TieBreakByIndex ==
    (Configured /\ backendConfigs = <<>> /\ IsBatch /\ call.adapter = "webpack")
    => \A i, j \in 1..Len(fixturesWithPaths) :
        FirstAndSecondSeen(i, j)
        => LET names == WebpackEntryNames(fixturesWithPaths)
               renamed == DerivedKey(i) \o <<"_">> \o NumberToString(j - 1)
           IN  /\ names[j] = renamed
               /\ renamed \in DOMAIN WebpackEntryOfCall
               /\ WebpackEntryOfCall[renamed] = fixturesWithPaths[j].fixturePath
               /\ (\A h \in 1..(i - 1) : names[h] # DerivedKey(i)) => names[i] = DerivedKey(i)

\* C5 witness: a webpack batch whose second and third fixture derive the
\* same key, which the first does not: the third one is at index 2.
C5_Witness ==
    /\ Configured
    /\ IsBatch
    /\ call.adapter = "webpack"
    /\ Len(fixturesWithPaths) = 3
    /\ FirstAndSecondSeen(2, 3)
    /\ DerivedKey(1) # DerivedKey(2)

\* The entry objects of the batched configuration given to the enhancer:
\* webpack's entry, or the entry of every Rsbuild environment (default, and
\* debug when there is one).
EntryMapsOfCall ==
    IF call.adapter = "webpack" THEN {WebpackEntryOfCall}
    ELSE {enhancerArg[1].environments[e].source.entry : e \in DOMAIN enhancerArg[1].environments}

\* C6 as stated: for every batch of N fixtures, every entry map assembled by
\* the batch path has exactly N distinct keys and holds the fixturePath of
\* every fixture of the batch.
C6_EntryKeysUnique ==
    (Configured /\ IsBatch)
    => \A entry \in EntryMapsOfCall :
        /\ Cardinality(DOMAIN entry) = Len(fixturesWithPaths)
        /\ \A i \in 1..Len(fixturesWithPaths) :
            fixturesWithPaths[i].fixturePath \in Range(entry)

\* The adapters whose enhancer call the source shows.
EnhancedAdapters == {"webpack", "Rsbuild"}

\* C7: in every invocation of the webpack runner and the Rsbuild adapter the
\* enhancer is called at most once and exactly once before a backend is
\* created or run; it is not called again afterwards (not per fixture, not
\* after a failure); in a batch that satisfies the batch invariant the one
\* call receives a configuration that holds the fixturePath of every fixture.
C7_EnhancerExactlyOnce ==
    /\ [](/\ enhancerCalls <= 1
          /\ (call.adapter \in EnhancedAdapters /\ (backendConfigs # <<>> \/ backendRuns > 0))
                => enhancerCalls = 1
          /\ (call.adapter \in EnhancedAdapters /\ pc \notin {"idle", "derived"})
                => (enhancerCalls = 1 /\ Len(enhancerArg) = 1)
          /\ (Configured /\ IsBatch /\ BatchInvariant(call.fixtures))
                => \A i \in 1..Len(call.fixtures) :
                    call.fixtures[i].fixturePath \in BackendSources(call.adapter, enhancerArg[1]))
    /\ [][enhancerCalls' # enhancerCalls
            => \/ (enhancerCalls = 0 /\ enhancerCalls' = 1
                    /\ backendConfigs = <<>> /\ backendRuns = 0)
               \/ (pc' = "idle" /\ enhancerCalls' = 0)]_vars

\* C7 witness: a Rsbuild batch of three fixtures has failed after its
\* backend ran, with one enhancer call.
C7_Witness ==
    /\ pc = "rejected"
    /\ IsBatch
    /\ call.adapter = "Rsbuild"
    /\ Len(call.fixtures) = 3
    /\ BatchInvariant(call.fixtures)
    /\ backendRuns = 1
    /\ enhancerCalls = 1

\* C8: the configuration a backend is created with is the value the
\* enhancer returned (not the object it was given, where the two differ); a
\* field the enhancer set (output.pathinfo = false) is the value the backend
\* sees; nothing changes the configuration after the enhancer returned.
C8_EnhancerResultRuns ==
    /\ [](\A k \in 1..Len(backendConfigs) :
            /\ backendConfigs[k] = config[1]
            /\ backendConfigs[k] =
                    EnhancerReturns(call.enhancer, call.adapter, enhancerArg[1])
            /\ (call.enhancer = "mutate" /\ call.adapter = "webpack")
                    => backendConfigs[k].output.pathinfo = FALSE
            /\ call.enhancer = "replace"
                    => (backendConfigs[k].mode = "development"
                        /\ backendConfigs[k] # defaultConfig[1]))
    /\ [][config # <<>> => (config' = config \/ pc' = "idle")]_vars

\* C8 witness: webpack has run, in debug mode, with the configuration an
\* enhancer changed in place.
C8_Witness ==
    /\ pc = "running"
    /\ call.adapter = "webpack"
    /\ call.enhancer = "mutate"
    /\ call.debug = "true"
    /\ enhancerArg[1].output.pathinfo = TRUE
    /\ backendConfigs[1].output.pathinfo = FALSE

\* The number of line breaks in a message.
LineBreaks(message) == Cardinality(Positions(message, "\n"))

\* The callback of compiler.run has been called in the running invocation.
CallbackCalled == call.adapter = "webpack" /\ pc \in {"settled", "returned", "rejected"} /\ backendRuns > 0

\* C9: after the callback of compiler.run the promise of runWebpack /
\* runWebpackMultiEntry is rejected exactly when err or a result with errors
\* was reported, and fulfilled with null otherwise; a reported err is the
\* rejection value; the errors of a result are the rejection value joined
\* by line breaks; once settled the promise never changes.
C9_CompilationErrorsReject ==
    /\ [](CallbackCalled
            => /\ promise.state \in {"fulfilled", "rejected"}
               /\ promise.state = "rejected"
                    <=> (reported.err # NoErr
                         \/ (reported.result.present /\ hasErrors(reported.result)))
               /\ promise.state = "fulfilled" => promise.value = NULL
               /\ reported.err # NoErr => promise.value = reported.err
               /\ (reported.err = NoErr /\ hasErrors(reported.result))
                    => /\ promise.value = JoinErrors(reported.result.errors)
                       /\ LineBreaks(promise.value) = Len(reported.result.errors) - 1
                       /\ \A e \in Range(reported.result.errors) :
                            \E at \in 1..Len(promise.value) :
                                SubSeq(promise.value, at, at + Len(e) - 1) = e)
    /\ [][promise.state # "pending" => (promise' = promise \/ pc' = "idle")]_vars

\* C9 witness: webpack reported a result with two errors and the promise
\* is rejected.
C9_Witness ==
    /\ CallbackCalled
    /\ Len(reported.result.errors) = 2
    /\ promise.state = "rejected"

\* The backend reported a failure of the running invocation.
FailureReported == reported.err # NoErr \/ hasErrors(reported.result)

\* C10: no partial success. When the backend reported an error (for one
\* fixture or more), the call never returns a BuildResult for any fixture;
\* results are returned only from a settled, fulfilled backend run, and a
\* returned batch holds a result for every fixture.
C10_NoPartialSuccess ==
    /\ []((FailureReported \/ promise.state = "rejected")
            => (results = <<>> /\ pc \in {"settled", "rejected"}))
    /\ [](results # <<>>
            => /\ pc = "returned"
               /\ promise.state = "fulfilled"
               /\ ~FailureReported
               /\ IsBatch => Len(results[1]) = Len(call.fixtures))
    /\ [][results' # results
            => \/ (pc = "settled" /\ promise.state = "fulfilled" /\ backendRuns = 1)
               \/ pc' = "idle"]_vars

\* C10 witness: a batch of two fixtures, of which the backend reported an
\* error for one only, was rejected.
C10_Witness ==
    /\ pc = "rejected"
    /\ IsBatch
    /\ Len(call.fixtures) = 2
    /\ call.fixtures[1].fixturePath # call.fixtures[2].fixturePath
    /\ Len(reported.result.errors) = 1
    /\ results = <<>>

\* The backend of the running invocation has been run and has reported.
BackendReported == reported # NothingReported

\* C11: one backend invocation per batch, no retries. In every invocation
\* at most one backend is created and it is run at most once; once the
\* backend of a webpack or Rsbuild batch has run (whatever it reported, also
\* after a failure) exactly one backend was created and run exactly once,
\* whatever the number of fixtures; with debug on, the one Rsbuild
\* configuration holds the debug build as a second environment.
C11_OneBackendRunPerBatch ==
    /\ backendRuns <= 1
    /\ Len(backendConfigs) <= 1
    /\ (IsBatch /\ call.adapter \in EnhancedAdapters
            /\ (pc \in {"running", "settled", "returned"} \/ BackendReported))
        => (backendRuns = 1 /\ Len(backendConfigs) = 1)
    /\ (IsBatch /\ call.adapter = "Rsbuild" /\ backendConfigs # <<>>)
        => (DOMAIN backendConfigs[1].environments =
                IF Truthy(call.debug) THEN {"default", "debug"} ELSE {"default"})

\* C11 witness: a Rsbuild batch of three fixtures with debug on has failed
\* in the backend, which ran once.
C11_Witness ==
    /\ pc = "rejected"
    /\ IsBatch
    /\ call.adapter = "Rsbuild"
    /\ call.debug = "true"
    /\ Len(call.fixtures) = 3
    /\ BackendReported
    /\ backendRuns = 1

\* C12: configuration errors stop the build. When the enhancer throws, the
\* invocation is rejected with the enhancer's error and no backend is
\* created or run in it: nothing is written and nothing is returned.
C12_ConfigurationErrorsStopTheBuild ==
    (call.enhancer = "throws" /\ pc \notin {"idle", "derived"})
    => /\ pc = "rejected"
       /\ promise = [state |-> "rejected", value |-> EnhancerError]
       /\ backendConfigs = <<>>
       /\ backendRuns = 0
       /\ ~BackendReported
       /\ fs = EmptyObject
       /\ results = <<>>

\* C12 witness: the enhancer of a webpack batch has thrown.
C12_Witness ==
    /\ pc = "rejected"
    /\ IsBatch
    /\ call.adapter = "webpack"
    /\ call.enhancer = "throws"
    /\ enhancerCalls = 1

\* The tie-break of the webpack batch renamed the key of fixture j to a key
\* that an earlier fixture of the batch already has.
ResidualCollisionAt(j) ==
    LET seen == WebpackEntryFold(fixturesWithPaths, j - 1).seenKeys
    IN  /\ DerivedKey(j) \in seen
        /\ WebpackEntryNames(fixturesWithPaths)[j] \in seen

ResidualCollision ==
    /\ IsBatch
    /\ call.adapter = "webpack"
    /\ \E j \in 1..Len(fixturesWithPaths) : ResidualCollisionAt(j)

\* C13 as stated: when, after the index-based tie-break, the entry key of a
\* fixture still equals a key already assigned in the batch, the batch build
\* fails: no backend is created for it and it returns no result.
C13_ResidualCollisionIsFatal ==
    ResidualCollision => (backendConfigs = <<>> /\ results = <<>>)

\* The contract of the path derivation: the fixture path ends in
\* ".fixture.js".
IsFixturePath(p) == EndsWith(p, S_dotFixtureJs)

\* C14: path derivation is injective within a batch. For any two fixtures of
\* an esbuild or Rsbuild invocation whose fixture paths (ending in
\* ".fixture.js") are distinct, the derived outputPath values are distinct,
\* and so are the derived debugOutputPath values.
C14_PathDerivationInjective ==
    (pc = "derived" /\ call.adapter \in {"esbuild", "Rsbuild"})
    => \A i, j \in 1..Len(fixturesWithPaths) :
        LET f == fixturesWithPaths[i]
            g == fixturesWithPaths[j]
        IN  (IsFixturePath(f.fixturePath) /\ IsFixturePath(g.fixturePath)
                /\ f.fixturePath # g.fixturePath)
            => /\ f.outputPath # g.outputPath
               /\ call.adapter = "Rsbuild" => f.debugOutputPath # g.debugOutputPath

\* C14 witness: the paths of a Rsbuild batch of three distinct fixture
\* paths, two of them with the same basename, have been derived.
C14_Witness ==
    /\ pc = "derived"
    /\ IsBatch
    /\ call.adapter = "Rsbuild"
    /\ Len(fixturesWithPaths) = 3
    /\ \A i \in 1..3 : IsFixturePath(fixturesWithPaths[i].fixturePath)
    /\ \A i, j \in 1..3 :
        i # j => fixturesWithPaths[i].fixturePath # fixturesWithPaths[j].fixturePath
    /\ path_basename(fixturesWithPaths[1].fixturePath) =
            path_basename(fixturesWithPaths[3].fixturePath)

\* The paths of a BuildResult: the result without the `name` a batch adds.
PathsOf(result) == Omit(result, {"name"})

\* The BuildResult buildFixture returns for the fixture alone, with the
\* adapter and the debug flag of the running call.
SingleResultOf(fixture) ==
    LET single == [call EXCEPT !.api = "buildFixture",
                               !.fixtures = <<[fixturePath |-> fixture.fixturePath]>>]
    IN  BuildResult(single, FixturesWithPaths(single.adapter, single.fixtures)[1])

OutputDirectories(adapter, cfg) ==
    IF adapter = "webpack" THEN {cfg.output.path}
    ELSE {cfg.environments[e].output.distPath.root : e \in DOMAIN cfg.environments}

FileNameTemplates(adapter, cfg) ==
    IF adapter = "webpack" THEN {cfg.output.filename}
    ELSE {cfg.environments[e].output.filename.js : e \in DOMAIN cfg.environments}

\* C16: shared output directory. The batched configuration of webpack and
\* of Rsbuild has exactly one output directory, the directory of the first
\* fixture's outputPath, whatever the directories of the other fixtures;
\* its file name template is "[name].js", so every file a run of it writes
\* is <that directory>/<entry key>.js.
C16_SharedOutputDirectory ==
    (Configured /\ backendConfigs = <<>> /\ IsBatch)
    => LET cfg == enhancerArg[1]
           outputDir == path_dirname(fixturesWithPaths[1].outputPath)
       IN  /\ OutputDirectories(call.adapter, cfg) = {outputDir}
           /\ FileNameTemplates(call.adapter, cfg) = {<<"[", "n", "a", "m", "e", "]", ".", "j", "s">>}
           /\ pc = "enhanced"
                => \A file \in DOMAIN BackendEmit(call.adapter, cfg) :
                    /\ path_dirname(file) = outputDir
                    /\ EndsWith(file, <<".", "j", "s">>)

\* C16 witness: the configuration of a Rsbuild batch with debug on, whose
\* second and third fixtures are in another directory than the first.
C16_Witness ==
    /\ pc = "enhanced"
    /\ IsBatch
    /\ call.adapter = "Rsbuild"
    /\ call.debug = "true"
    /\ Len(fixturesWithPaths) = 3
    /\ \A i \in 2..3 :
        path_dirname(fixturesWithPaths[i].outputPath) # path_dirname(fixturesWithPaths[1].outputPath)

\* The environments of the Rsbuild configuration given to the enhancer.
EnvironmentsOfCall == enhancerArg[1].environments

\* The keys the debug entry map of a batch is built from: the basenames,
\* without extension, of the debug output paths.
DebugOutputKeys == {EntryKeyOf(fixturesWithPaths[i].debugOutputPath) : i \in 1..Len(fixturesWithPaths)}

\* The output fields in which the debug environment is meant to differ from
\* the default one: minify, and the file name in a single-fixture build.
DebugOnlyFields == IF IsBatch THEN {"minify"} ELSE {"minify", "filename"}

\* C17: debug environment of the Rsbuild adapter. The configuration always
\* has a default environment with minify true; it has a debug environment
\* exactly when debug is requested. For fixture paths ending in
\* ".fixture.js" the debug environment compiles the same set of fixture paths
\* as the default one, in a batch keyed by the debug output basenames, in a
\* single build under the same key with the debug file name; it has minify
\* false and every other output setting equal to the default environment.
C17_RsbuildDebugEnvironment ==
    (Configured /\ backendConfigs = <<>> /\ call.adapter = "Rsbuild")
    => LET envs == EnvironmentsOfCall
       IN  /\ "default" \in DOMAIN envs
           /\ envs["default"].output.minify = TRUE
           /\ ("debug" \in DOMAIN envs) <=> Truthy(call.debug)
           /\ DOMAIN envs \subseteq {"default", "debug"}
           /\ "debug" \in DOMAIN envs
                => /\ envs["debug"].output.minify = FALSE
                   /\ Omit(envs["debug"].output, DebugOnlyFields) =
                        Omit(envs["default"].output, DebugOnlyFields)
                   /\ envs["debug"].performance = envs["default"].performance
                   /\ (\A i \in 1..Len(fixturesWithPaths) :
                            IsFixturePath(fixturesWithPaths[i].fixturePath))
                        => Range(envs["debug"].source.entry) =
                                Range(envs["default"].source.entry)
                   /\ IsBatch => DOMAIN envs["debug"].source.entry = DebugOutputKeys
                   /\ ~IsBatch
                        => /\ envs["debug"].source.entry = envs["default"].source.entry
                           /\ envs["debug"].output.filename.js =
                                path_basename(fixturesWithPaths[1].debugOutputPath)

\* C17 witness: the configuration of a Rsbuild batch with debug on, of
\* three fixtures of one directory with two distinct fixture paths.
C17_Witness ==
    /\ Configured
    /\ IsBatch
    /\ call.adapter = "Rsbuild"
    /\ call.debug = "true"
    /\ Len(fixturesWithPaths) = 3
    /\ BatchInvariant(call.fixtures)
    /\ Cardinality(DOMAIN EnvironmentsOfCall["debug"].source.entry) = 2

\* The debug settings of a webpack configuration, as the claim lists them.
WebpackDebugSettingsOff(cfg) ==
    /\ Len(cfg.optimization.minimizer) = 1
    /\ "minimize" \notin DOMAIN cfg.optimization
    /\ "stats" \notin DOMAIN cfg
    /\ "pathinfo" \notin DOMAIN cfg.output

WebpackDebugSettingsOn(cfg) ==
    /\ cfg.optimization.minimize = FALSE
    /\ cfg.optimization.minimizer = <<>>
    /\ cfg.output.pathinfo = TRUE
    /\ cfg.stats.optimizationBailout = TRUE

\* The fields of a webpack configuration other than entry, output.filename
\* and output.path.
SharedFields(cfg) ==
    [k \in DOMAIN cfg \ {"entry"} |->
        IF k = "output"
        THEN [o \in DOMAIN cfg.output \ {"filename", "path"} |-> cfg.output[o]]
        ELSE cfg[k]]

\* C18: webpack single/multi configuration parity. For the debug flag of the
\* call, the configuration createWebpackConfig builds for a fixture of the
\* batch and the configuration createMultiEntryWebpackConfig builds for the
\* batch have the same fields and agree on all of them except entry,
\* output.filename and output.path; with debug off both keep one minimizer
\* and set no minimize, stats or output.pathinfo; with debug on both set
\* minimize false, no minimizer, output.pathinfo true and
\* stats.optimizationBailout true.
C18_WebpackConfigurationParity ==
    (pc = "enhanced" /\ call.adapter = "webpack")
    => \A i \in 1..Len(fixturesWithPaths) :
        LET single == createWebpackConfig(fixturesWithPaths[i].fixturePath,
                                          fixturesWithPaths[i].outputPath, call.debug)
            multi == createMultiEntryWebpackConfig(fixturesWithPaths, call.debug)
        IN  /\ enhancerArg[1] = IF IsBatch THEN multi ELSE single
            /\ DOMAIN single = DOMAIN multi
            /\ DOMAIN single.output = DOMAIN multi.output
            /\ SharedFields(single) = SharedFields(multi)
            /\ IF Truthy(call.debug)
               THEN WebpackDebugSettingsOn(single) /\ WebpackDebugSettingsOn(multi)
               ELSE WebpackDebugSettingsOff(single) /\ WebpackDebugSettingsOff(multi)

\* C18 witness: the configuration of a webpack batch of three fixtures with
\* debug on has been built.
C18_Witness ==
    /\ pc = "enhanced"
    /\ IsBatch
    /\ call.adapter = "webpack"
    /\ call.debug = "true"
    /\ Len(fixturesWithPaths) = 3
    /\ enhancerArg[1].output.pathinfo = TRUE

\* What an invocation with the options and the enhancer of the running call
\* returns when nothing but these is looked at.
ResultFromOptions ==
    LET withPaths == FixturesWithPaths(call.adapter, call.fixtures)
    IN  IF IsBatch THEN BuildResults(call, withPaths) ELSE BuildResult(call, withPaths[1])

AssignedKey(i) ==
    IF call.adapter = "webpack" THEN WebpackEntryNames(fixturesWithPaths)[i]
    ELSE DerivedKey(i)

\* The output directory of the batched configuration.
SharedOutputDirectory == path_dirname(fixturesWithPaths[1].outputPath)

\* C20 as stated: for every fixture i of a returned webpack or Rsbuild batch
\* the returned outputPath is join(shared output directory, entry key of
\* fixture i + ".js"), and the file written there is the artifact compiled
\* from the fixturePath of fixture i; for every batch, also with fixtures in
\* different directories and with keys the tie-break renamed.
C20_ReturnedPathsNameWrittenFiles ==
    (pc = "returned" /\ IsBatch /\ call.adapter \in EnhancedAdapters)
    => \A i \in 1..Len(fixturesWithPaths) :
        LET returned == results[1][i].outputPath
        IN  /\ returned = path_join(SharedOutputDirectory, AssignedKey(i) \o <<".", "j", "s">>)
            /\ returned \in DOMAIN fs
            /\ \A artifact \in fs[returned] :
                    artifact.src = fixturesWithPaths[i].fixturePath

\* C21: outputs never alias. For every fixture path given to the esbuild or
\* the Rsbuild adapter, also one that does not end in ".fixture.js", the
\* derived outputPath differs from the fixturePath and the derived
\* debugOutputPath differs from the outputPath: no build is set up to write
\* over its own source file, or to write the release and the debug artifact
\* to one file.
C21_OutputsNeverAlias ==
    (pc = "derived" /\ call.adapter \in {"esbuild", "Rsbuild"})
    => \A i \in 1..Len(fixturesWithPaths) :
        /\ fixturesWithPaths[i].outputPath # fixturesWithPaths[i].fixturePath
        /\ "debugOutputPath" \in DOMAIN fixturesWithPaths[i]
            => fixturesWithPaths[i].debugOutputPath # fixturesWithPaths[i].outputPath

====
